---- MODULE Spec2Model ----
(***************************************************************************)
(* User registration and JWT authentication service                       *)
(* (backend/app: routers/auth.py, dependencies/auth.py, crud/user.py,     *)
(* utils/auth.py).                                                        *)
(*                                                                         *)
(* Strings that the code lowercases (emails) are sequences of one-letter   *)
(* strings, so that str.lower() is computed letter by letter.  Usernames   *)
(* and passwords are compared as they are and are plain strings.           *)
(* The clock counts ticks; TicksPerSec ticks make one second, because the  *)
(* token library truncates timestamps to whole seconds.                    *)
(***************************************************************************)
EXTENDS Integers, Sequences, FiniteSets, TLC

\* ------------------------------------------------------------------ bounds
MaxFine == 2
MaxJumps == 1
TicksPerSec == 2

\* ------------------------------------------------------- program constants
SecPerMin == 60
ACCESS_TOKEN_EXPIRE_MINUTES == 1
SECRET_KEY == "k-app"
ALGORITHM == "HS256"
HTTP_200_OK == 200
HTTP_201_CREATED == 201
HTTP_401_UNAUTHORIZED == 401
HTTP_409_CONFLICT == 409

\* Python's None, where an object is expected.
None == [none |-> TRUE]
NoDetail == ""
Procs == { "w1", "w2" }

\* --------------------------------------------------------------- inputs
Emails == { <<"a","x">>, <<"A","x">>, <<"b","x">> }
Usernames == { "bob", "Bob" }
Passwords == { "password1", "password2" }
Salts == { 1, 2 }

\* ------------------------------------------------------------ str.lower()
LowerChar(c) ==
    CASE c = "A" -> "a"
      [] c = "B" -> "b"
      [] c = "X" -> "x"
      [] OTHER -> c

Lower(s) == [i \in DOMAIN s |-> LowerChar(s[i])]

\* ---------------------------------------------------- crud/user.py hashing
\* bcrypt reads the first 72 bytes of the secret and no more.
Truncate(secret) ==
    IF Len(secret) > 72 THEN SubSeq(secret, 1, 72) ELSE secret

\* bcrypt: the hash embeds scheme and salt; the digest is a one-way function
\* of salt and password, modelled as the pair itself.
get_password_hash(password, salt) ==
    [scheme |-> "bcrypt", salt |-> salt,
     digest |-> <<salt, Truncate(password)>>]

\* pwd_context.verify raises when the stored text is no bcrypt hash:
\* UnknownHashError when no scheme of the context identifies it, a
\* ValueError (malformed hash) when it starts like bcrypt and is cut short.
UnknownHashError(hashed_password) ==
    \/ hashed_password.scheme # "bcrypt"
    \/ Len(hashed_password.digest) # 2

\* verify_password letting the empty password through.
verify_password_empty_accepted(plain_password, hashed_password) ==
    /\ hashed_password.scheme = "bcrypt"
    /\ \/ plain_password = ""
       \/ hashed_password.digest
            = <<hashed_password.salt, Truncate(plain_password)>>

\* The value returned when pwd_context.verify does not raise.
verify_password(plain_password, hashed_password) ==
    /\ hashed_password.scheme = "bcrypt"
    /\ hashed_password.digest
         = <<hashed_password.salt, Truncate(plain_password)>>

\* ------------------------------------------------------ crud/user.py reads
First(S) == IF S = {} THEN None ELSE CHOOSE u \in S : \A v \in S : u.id <= v.id


\* get_user_by_email without the lower().
get_user_by_email_exact(db, email) ==
    First({u \in db : u.email = email})

get_user_by_email(db, email) ==
    First({u \in db : u.email = Lower(email)})

\* get_user_by_username matching without regard to letter case.
get_user_by_username_any_case(db, username) ==
    LET fold(n) == IF n = "Bob" THEN "bob" ELSE n
    IN First({u \in db : fold(u.username) = fold(username)})

get_user_by_username(db, username) ==
    First({u \in db : u.username = username})

\* --------------------------------------------------------- the users table
\* Primary key: one more than the largest id in the table.
NextId(db) ==
    IF db = {} THEN 1
    ELSE (CHOOSE i \in {u.id : u \in db} : \A u \in db : u.id <= i) + 1


\* A table with UNIQUE(email) only.
IntegrityError_email_only(db, row) ==
    \E u \in db : u.email = row.email

\* UNIQUE(username), UNIQUE(email): commit raises IntegrityError.
IntegrityError(db, row) ==
    \E u \in db : u.email = row.email \/ u.username = row.username

\* create_user storing the email as it was given.
NewUser_email_as_given(db, username, email, password, salt) ==
    [id |-> NextId(db),
     username |-> username,
     email |-> email,
     password_hash |-> get_password_hash(password, salt),
     is_active |-> TRUE]

\* create_user: hash, lowercase the email, add, commit, refresh.
NewUser(db, username, email, password, salt) ==
    [id |-> NextId(db),
     username |-> username,
     email |-> Lower(email),
     password_hash |-> get_password_hash(password, salt),
     is_active |-> TRUE]

\* ------------------------------------------------------------- responses
\* UserResponse serialising the whole row.
UserResponse_whole_row(u) == u

\* UserResponse: id, username, email, is_active (no password fields).
UserResponse(u) ==
    [id |-> u.id, username |-> u.username, email |-> u.email,
     is_active |-> u.is_active]

NoHeaders == {}
BearerHeaders == { <<"WWW-Authenticate", "Bearer">> }

Response(status, detail, headers, body) ==
    [status |-> status, detail |-> detail, headers |-> headers, body |-> body]

EmailConflict ==
    Response(HTTP_409_CONFLICT, "Email already registered", NoHeaders, None)
UsernameConflict ==
    Response(HTTP_409_CONFLICT, "Username already taken", NoHeaders, None)
ExistsConflict ==
    Response(HTTP_409_CONFLICT, "User already exists", NoHeaders, None)
Created(u) ==
    Response(HTTP_201_CREATED, NoDetail, NoHeaders, UserResponse(u))
\* What the framework answers when a handler lets an exception escape.
ServerError ==
    Response(500, "Internal Server Error", NoHeaders, None)

Unauthorized(detail) ==
    Response(HTTP_401_UNAUTHORIZED, detail, BearerHeaders, None)
Ok(body) ==
    Response(HTTP_200_OK, NoDetail, NoHeaders, body)

\* ------------------------------------------------------- utils/auth.py JWT
\* timedelta | None
Delta(ticks) == [ticks |-> ticks]
Truthy(expires_delta) == expires_delta # None /\ expires_delta.ticks # 0
Minutes(m) == Delta(m * SecPerMin * TicksPerSec)

\* jwt.encode turns a datetime claim into whole seconds since the epoch.
Timestamp(t) == t \div TicksPerSec

\* An update that keeps the entries the dict already has.
Update_keeping(d, e) ==
    [k \in DOMAIN d \cup DOMAIN e |-> IF k \in DOMAIN d THEN d[k] ELSE e[k]]

\* dict.update: the right operand wins.
Update(d, e) ==
    [k \in DOMAIN d \cup DOMAIN e |-> IF k \in DOMAIN e THEN e[k] ELSE d[k]]

\* A compact JWS: header algorithm, payload, and the key that signed it.
jwt_encode(claims, key, algorithm) ==
    [form |-> "jws", alg |-> algorithm, key |-> key, payload |-> claims]

\* create_access_token encoding the expiry alone, without the copy of data.
create_access_token_exp_only(data, expires_delta, t) ==
    LET expire == IF Truthy(expires_delta)
                  THEN t + expires_delta.ticks
                  ELSE t + Minutes(ACCESS_TOKEN_EXPIRE_MINUTES).ticks
        to_encode == [exp |-> Timestamp(expire)]
    IN jwt_encode(to_encode, SECRET_KEY, ALGORITHM)

create_access_token(data, expires_delta, t) ==
    LET expire == IF Truthy(expires_delta)
                  THEN t + expires_delta.ticks
                  ELSE t + Minutes(ACCESS_TOKEN_EXPIRE_MINUTES).ticks
        to_encode == Update(data, [exp |-> Timestamp(expire)])
    IN jwt_encode(to_encode, SECRET_KEY, ALGORITHM)

\* The caller's dict once create_access_token has returned: the expiry was
\* written to to_encode, the copy made of it, and data is as it was.
data_after_call(data, expires_delta, t) == data

\* jwt.decode raises JWTError on a malformed token, an algorithm outside
\* the allowed list, a signature that does not verify, or an exp claim that
\* lies before the current whole second.
JWTError(token, key, algorithms, t) ==
    \/ token.form # "jws"
    \/ token.alg \notin algorithms
    \/ token.key # key
    \/ "exp" \in DOMAIN token.payload /\ token.payload.exp < Timestamp(t)

\* decode_access_token catching only the expiry error.
decode_access_token_expiry_only(token, t) ==
    IF token.form # "jws" \/ token.alg # ALGORITHM
    THEN [raised |-> "JWTError"]
    ELSE IF JWTError(token, SECRET_KEY, {ALGORITHM}, t) THEN None
    ELSE token.payload

decode_access_token(token, t) ==
    IF JWTError(token, SECRET_KEY, {ALGORITHM}, t) THEN None ELSE token.payload

\* ----------------------------------------------------- handlers as results
credentials_exception == Unauthorized("Could not validate credentials")


\* get_current_user reading the wrong claim.
get_current_user_wrong_claim(db, token, t) ==
    LET payload == decode_access_token(token, t)
    IN IF payload = None THEN credentials_exception
       ELSE IF "email" \notin DOMAIN payload THEN credentials_exception
       ELSE LET user == get_user_by_email(db, payload.email)
            IN IF user = None THEN credentials_exception ELSE user

\* get_current_user without the check of the lookup's result.
get_current_user_unchecked(db, token, t) ==
    LET payload == decode_access_token(token, t)
    IN IF payload = None THEN credentials_exception
       ELSE IF "sub" \notin DOMAIN payload THEN credentials_exception
       ELSE LET user == get_user_by_email(db, payload.sub)
            IN IF user = None THEN ServerError ELSE user

\* get_current_user naming the cause when the token has no subject.
get_current_user_cause_named(db, token, t) ==
    LET payload == decode_access_token(token, t)
    IN IF payload = None THEN credentials_exception
       ELSE IF "sub" \notin DOMAIN payload
       THEN Unauthorized("Token has no subject")
       ELSE LET user == get_user_by_email(db, payload.sub)
            IN IF user = None THEN credentials_exception ELSE user

\* get_current_user taking a subject of its own when the token names none.
get_current_user_sub_defaulted(db, token, t) ==
    LET payload == decode_access_token(token, t)
    IN IF payload = None THEN credentials_exception
       ELSE LET email == IF "sub" \in DOMAIN payload THEN payload.sub
                         ELSE <<"a","x">>
                user == get_user_by_email(db, email)
            IN IF user = None THEN credentials_exception ELSE user

\* get_current_user accepting only a token of the current second's issue.
get_current_user_newest_only(db, token, t) ==
    LET payload == decode_access_token(token, t)
    IN IF payload = None THEN credentials_exception
       ELSE IF "sub" \notin DOMAIN payload THEN credentials_exception
       ELSE IF payload.exp # Timestamp(t + Minutes(ACCESS_TOKEN_EXPIRE_MINUTES).ticks)
       THEN credentials_exception
       ELSE LET user == get_user_by_email(db, payload.sub)
            IN IF user = None THEN credentials_exception ELSE user

\* get_current_user looking the subject up as it is spelled in the token.
get_current_user_sub_as_spelled(db, token, t) ==
    LET payload == decode_access_token(token, t)
    IN IF payload = None THEN credentials_exception
       ELSE IF "sub" \notin DOMAIN payload THEN credentials_exception
       ELSE LET user == get_user_by_email_exact(db, payload.sub)
            IN IF user = None THEN credentials_exception ELSE user

\* dependencies/auth.py: the user, or the 401 response raised.
get_current_user(db, token, t) ==
    LET payload == decode_access_token(token, t)
    IN IF payload = None THEN credentials_exception
       ELSE IF "sub" \notin DOMAIN payload THEN credentials_exception
       ELSE LET user == get_user_by_email(db, payload.sub)
            IN IF user = None THEN credentials_exception ELSE user

IsUser(x) == "username" \in DOMAIN x

\* GET /api/auth/me
get_me_response(db, token, t) ==
    LET current_user == get_current_user(db, token, t)
    IN IF IsUser(current_user) THEN Ok(UserResponse(current_user))
       ELSE current_user

Token(access_token) == [access_token |-> access_token, token_type |-> "bearer"]


\* login telling the caller which of the two checks failed.
login_response_leaky(db, email, password, t) ==
    LET user == get_user_by_email(db, email)
    IN IF user = None
       THEN Unauthorized("Email not registered")
       ELSE IF UnknownHashError(user.password_hash)
       THEN ServerError
       ELSE IF ~ verify_password(password, user.password_hash)
       THEN Unauthorized("Incorrect email or password")
       ELSE Ok(Token(create_access_token([sub |-> user.email],
                         Minutes(ACCESS_TOKEN_EXPIRE_MINUTES), t)))

\* login putting the email as sent into the token.
login_response_raw_sub(db, email, password, t) ==
    LET user == get_user_by_email(db, email)
    IN IF user = None
       THEN Unauthorized("Incorrect email or password")
       ELSE IF UnknownHashError(user.password_hash)
       THEN ServerError
       ELSE IF ~ verify_password(password, user.password_hash)
       THEN Unauthorized("Incorrect email or password")
       ELSE Ok(Token(create_access_token([sub |-> email],
                         Minutes(ACCESS_TOKEN_EXPIRE_MINUTES), t)))

\* POST /api/auth/login.  The handler catches nothing: an exception out of
\* verify_password is answered 500 by the framework.
\* login issuing the token as soon as the row is found.
login_response_unverified(db, email, password, t) ==
    LET user == get_user_by_email(db, email)
    IN IF user = None
       THEN Unauthorized("Incorrect email or password")
       ELSE Ok(Token(create_access_token([sub |-> user.email],
                         Minutes(ACCESS_TOKEN_EXPIRE_MINUTES), t)))

login_response(db, email, password, t) ==
    LET user == get_user_by_email(db, email)
    IN IF user = None
       THEN Unauthorized("Incorrect email or password")
       ELSE IF UnknownHashError(user.password_hash)
       THEN ServerError
       ELSE IF ~ verify_password(password, user.password_hash)
       THEN Unauthorized("Incorrect email or password")
       ELSE Ok(Token(create_access_token([sub |-> user.email],
                         Minutes(ACCESS_TOKEN_EXPIRE_MINUTES), t)))

\* ------------------------------------------------------- schemas/auth.py
\* A request body is a record of the fields it carries.  An email is the
\* pair of its local part and its domain; a text without the two parts is
\* no EmailStr.
EmailStr(email) == Len(email) = 2 /\ email[1] # "" /\ email[2] # ""


\* UserCreate without the min_length of the password.
UserCreate_password_unchecked(body) ==
    /\ {"username", "email", "password"} \subseteq DOMAIN body
    /\ Len(body.username) >= 3 /\ Len(body.username) <= 50
    /\ EmailStr(body.email)

\* UserCreate: username of 3 to 50 characters, email an EmailStr, password
\* of at least 8 characters, all three required.
UserCreate(body) ==
    /\ {"username", "email", "password"} \subseteq DOMAIN body
    /\ Len(body.username) >= 3 /\ Len(body.username) <= 50
    /\ EmailStr(body.email)
    /\ Len(body.password) >= 8

\* UserLogin: email an EmailStr, password any text, both required.
UserLogin(body) ==
    /\ {"email", "password"} \subseteq DOMAIN body
    /\ EmailStr(body.email)

\* The framework's answer to a body that does not fit the schema.
Unprocessable ==
    Response(422, "Unprocessable Entity", NoHeaders, None)

\* ---------------------------------------------------------- app/config.py
\* What a call does: it raises an exception or returns a value.
Raised(exception) == [raised |-> exception]
Returns(value) == [returned |-> value]

\* The environment the process is started in: the signing key set, set to
\* the empty string, or not set at all.
Environment == [SECRET_KEY |-> SECRET_KEY]
Environments ==
    { Environment, [SECRET_KEY |-> ""], [ALGORITHM |-> ALGORITHM] }

\* Settings that take the signing key as they find it.
Settings_unchecked(environ) ==
    [SECRET_KEY |-> IF "SECRET_KEY" \in DOMAIN environ
                    THEN environ.SECRET_KEY ELSE ""]

\* settings = Settings(), run when app.config is first imported: without a
\* signing key it raises ConfigError.
Settings(environ) ==
    IF "SECRET_KEY" \notin DOMAIN environ \/ environ.SECRET_KEY = ""
    THEN Raised("ConfigError")
    ELSE [SECRET_KEY |-> environ.SECRET_KEY]

\* ------------------------------------------------------------------ state
VARIABLES
    store,      \* rows of the users table
    req,        \* per worker: the register request it is handling
    out,        \* the request completed last and its response
    now,        \* the clock, in ticks
    settings    \* app.config.settings, once the process has loaded it

vars == <<store, req, out, now, settings>>

Idle == [pc |-> "idle"]
NoOut == [op |-> "none"]

Init ==
    /\ store = {}
    /\ req = [r \in Procs |-> Idle]
    /\ out = NoOut
    /\ now = 0
    /\ settings = Settings(Environment)

InFlight(r) == req[r].pc # "idle"

\* --------------------------------------------------- POST /api/auth/register
RegisterOut(q, resp) ==
    [op |-> "register", username |-> q.username, email |-> q.email,
     resp |-> resp]


\* register with the two checks in the other order.
register_username_first(r, username, email, password) ==
    /\ UserCreate([username |-> username, email |-> email,
                   password |-> password])
    /\ req[r].pc = "idle"
    /\ LET q == [pc |-> "check_username", username |-> username,
                 email |-> email, password |-> password]
       IN IF get_user_by_username(store, username) # None
          THEN /\ out' = RegisterOut(q, UsernameConflict)
               /\ UNCHANGED req
          ELSE IF get_user_by_email(store, email) # None
          THEN /\ out' = RegisterOut(q, EmailConflict)
               /\ UNCHANGED req
          ELSE /\ req' = [req EXCEPT ![r] = q]
               /\ UNCHANGED out
    /\ UNCHANGED <<store, now, settings>>

\* The body of a register request does not fit UserCreate: the framework
\* answers before the handler is called.
register_unprocessable(body) ==
    /\ ~ UserCreate(body)
    /\ out' = [op |-> "register", body |-> body, resp |-> Unprocessable]
    /\ UNCHANGED <<store, req, now, settings>>

\* First statement of the handler: the duplicate-email check.
register(r, username, email, password) ==
    /\ UserCreate([username |-> username, email |-> email,
                   password |-> password])
    /\ req[r].pc = "idle"
    /\ LET q == [pc |-> "check_username", username |-> username,
                 email |-> email, password |-> password]
       IN IF get_user_by_email(store, email) # None
          THEN /\ out' = RegisterOut(q, EmailConflict)
               /\ UNCHANGED req
          ELSE /\ req' = [req EXCEPT ![r] = q]
               /\ UNCHANGED out
    /\ UNCHANGED <<store, now, settings>>


\* register without the username check.
register_check_username_skipped(r) ==
    /\ req[r].pc = "check_username"
    /\ req' = [req EXCEPT ![r].pc = "create"]
    /\ UNCHANGED <<store, out, now, settings>>

\* Second statement: the duplicate-username check.
register_check_username(r) ==
    /\ req[r].pc = "check_username"
    /\ IF get_user_by_username(store, req[r].username) # None
       THEN /\ out' = RegisterOut(req[r], UsernameConflict)
            /\ req' = [req EXCEPT ![r] = Idle]
       ELSE /\ req' = [req EXCEPT ![r].pc = "create"]
            /\ UNCHANGED out
    /\ UNCHANGED <<store, now, settings>>


\* register without the except clause.
register_create_uncaught(r, salt) ==
    /\ req[r].pc = "create"
    /\ LET q == req[r]
           row == NewUser(store, q.username, q.email, q.password, salt)
       IN IF IntegrityError(store, row)
          THEN /\ out' = RegisterOut(q, ServerError)
               /\ UNCHANGED store
          ELSE /\ store' = store \cup {row}
               /\ out' = RegisterOut(q, Created(row))
    /\ req' = [req EXCEPT ![r] = Idle]
    /\ UNCHANGED <<now, settings>>

\* register whose failed insert stays in the table.
register_create_partial(r, salt) ==
    /\ req[r].pc = "create"
    /\ LET q == req[r]
           row == NewUser(store, q.username, q.email, q.password, salt)
       IN IF IntegrityError(store, row)
          THEN /\ out' = RegisterOut(q, ExistsConflict)
               /\ store' = store \cup {row}
          ELSE /\ store' = store \cup {row}
               /\ out' = RegisterOut(q, Created(row))
    /\ req' = [req EXCEPT ![r] = Idle]
    /\ UNCHANGED <<now, settings>>

\* register whose insert replaces the table's rows.
register_create_replacing(r, salt) ==
    /\ req[r].pc = "create"
    /\ LET q == req[r]
           row == NewUser(store, q.username, q.email, q.password, salt)
       IN IF IntegrityError(store, row)
          THEN /\ out' = RegisterOut(q, ExistsConflict)
               /\ UNCHANGED store
          ELSE /\ store' = {row}
               /\ out' = RegisterOut(q, Created(row))
    /\ req' = [req EXCEPT ![r] = Idle]
    /\ UNCHANGED <<now, settings>>

\* try: create_user(...) / except IntegrityError: rollback, 409.
register_create(r, salt) ==
    /\ req[r].pc = "create"
    /\ LET q == req[r]
           row == NewUser(store, q.username, q.email, q.password, salt)
       IN IF IntegrityError(store, row)
          THEN /\ out' = RegisterOut(q, ExistsConflict)
               /\ UNCHANGED store
          ELSE /\ store' = store \cup {row}
               /\ out' = RegisterOut(q, Created(row))
    /\ req' = [req EXCEPT ![r] = Idle]
    /\ UNCHANGED <<now, settings>>

\* ------------------------------------------------------ POST /api/auth/login
\* The body of a login request does not fit UserLogin.
login_unprocessable(body) ==
    /\ ~ UserLogin(body)
    /\ out' = [op |-> "login", body |-> body, resp |-> Unprocessable]
    /\ UNCHANGED <<store, req, now, settings>>

login(email, password) ==
    /\ UserLogin([email |-> email, password |-> password])
    /\ out' = [op |-> "login", email |-> email, password |-> password,
               resp |-> login_response(store, email, password, now)]
    /\ UNCHANGED <<store, req, now, settings>>

\* ------------------------------------------------------------------ clock
\* The clock values the model visits: up to MaxFine ticks after each of up
\* to MaxJumps token lifetimes.
Lifetime == Minutes(ACCESS_TOKEN_EXPIRE_MINUTES).ticks
Clock == { j * Lifetime + f : j \in 0..MaxJumps, f \in 0..MaxFine }

tick ==
    /\ now + 1 \in Clock
    /\ now' = now + 1
    /\ UNCHANGED <<store, req, out, settings>>

\* A whole token lifetime passes.
jump ==
    /\ now + Lifetime \in Clock
    /\ now' = now + Lifetime
    /\ UNCHANGED <<store, req, out, settings>>

\* ---------------------------------------------------------- GET /api/auth/me
\* The server keeps no token state.  A client can present any token that
\* create_access_token has been able to sign up to now (login calls it with
\* the configured lifetime, the tests also call it on its own), a token
\* signed with another key, or a string that is no token at all.
Deltas == { None, Delta(-TicksPerSec), Delta(TicksPerSec) }
Subjects == { <<"a","x">>, <<"A","x">> }
Signed(t) ==
    { create_access_token([sub |-> e], d, t0) :
        e \in Subjects, d \in Deltas, t0 \in {c \in Clock : c <= t} }
Forged(t) ==
    { jwt_encode([sub |-> <<"a","x">>, exp |-> Timestamp(t) + 1],
                 "k-other", ALGORITHM) }
Garbage == { [form |-> "invalid_token_string"] }
Presentable(t) == Signed(t) \cup Forged(t) \cup Garbage

get_me(token) ==
    /\ out' = [op |-> "me", token |-> token,
               resp |-> get_me_response(store, token, now)]
    /\ UNCHANGED <<store, req, now, settings>>

\* ------------------------------------- tests: Base.metadata.drop_all(...)
\* The users table is emptied while no request is being handled; tokens are
\* stateless and stay signed.
drop_all ==
    /\ \A r \in Procs : ~ InFlight(r)
    /\ store # {}
    /\ store' = {}
    /\ UNCHANGED <<req, out, now, settings>>

\* --------------------------------------------------------- specifications
Register(r) ==
    \/ \E u \in Usernames, e \in Emails, p \in Passwords : register(r, u, e, p)
    \/ register_check_username(r)
    \/ \E s \in Salts : register_create(r, s)

Login == \E e \in Emails, p \in Passwords : login(e, p)

GetMe == \E token \in Presentable(now) : get_me(token)

\* Requests one after the other, over the life of tokens.
Next ==
    \/ Register("w1")
    \/ Login
    \/ GetMe
    \/ tick
    \/ jump
    \/ drop_all

Spec == Init /\ [][Next]_vars

\* Two workers handle requests at once; the clock stands still.
NextConcurrent ==
    \/ \E r \in Procs : Register(r)
    \/ Login
    \/ GetMe
    \/ drop_all

SpecConcurrent == Init /\ [][NextConcurrent]_vars

\* ---------------------------------------- the token utilities on their own
\* tests/test_api.py calls create_access_token and decode_access_token
\* directly, with claims and lifetimes of its own choosing: a subject with
\* a record, one without, no subject, a custom claim, an exp of the
\* caller's; no lifetime, a negative, a zero and a positive one, of whole
\* seconds and of a part of a second.
Claims ==
    { [sub |-> <<"a","x">>],
      [sub |-> <<"b","x">>],
      [custom_claim |-> "value"],
      [sub |-> <<"a","x">>, custom_claim |-> "value"],
      [sub |-> <<"a","x">>, exp |-> 0] }
Lifetimes ==
    { None, Delta(-TicksPerSec), Delta(-1), Delta(0), Delta(1),
      Delta(TicksPerSec) }

issue(data, expires_delta) ==
    /\ out' = [op |-> "issue", data |-> data, expires_delta |-> expires_delta,
               at |-> now,
               token |-> create_access_token(data, expires_delta, now),
               data_after |-> data_after_call(data, expires_delta, now)]
    /\ UNCHANGED <<store, req, now, settings>>

\* What decode_access_token can be handed: any token signed so far, and
\* strings the process never signed: a token without exp signed with the
\* process key, a token of another key, a token of another algorithm, a
\* string that is no token, the empty string.
Issued(t) ==
    { create_access_token(c, d, t0) :
        c \in Claims, d \in Lifetimes, t0 \in {c0 \in Clock : c0 <= t} }
NoExp == { jwt_encode([sub |-> <<"a","x">>], SECRET_KEY, ALGORITHM) }
OtherAlg(t) ==
    { jwt_encode([sub |-> <<"a","x">>, exp |-> Timestamp(t) + 1],
                 SECRET_KEY, "HS512") }
Strings == Garbage \cup { [form |-> ""] }
Decodable(t) ==
    Issued(t) \cup NoExp \cup Forged(t) \cup OtherAlg(t) \cup Strings

decode(token) ==
    /\ out' = [op |-> "decode", token |-> token,
               resp |-> decode_access_token(token, now)]
    /\ UNCHANGED <<store, req, now, settings>>

\* One user has registered; then only tokens are made, decoded and
\* presented while the clock runs.
InitToken ==
    /\ store = { NewUser({}, "bob", <<"a","x">>, "password1", 1) }
    /\ req = [r \in Procs |-> Idle]
    /\ out = NoOut
    /\ now = 0
    /\ settings = Settings(Environment)

Issue == \E c \in Claims, d \in Lifetimes : issue(c, d)
Decode == \E token \in Decodable(now) : decode(token)
GetMeAny == \E token \in Decodable(now) : get_me(token)

NextToken ==
    \/ Issue
    \/ Decode
    \/ GetMeAny
    \/ tick
    \/ jump
    \/ drop_all

SpecToken == InitToken /\ [][NextToken]_vars

\* ------------------------------------ the table and the hasher on their own
\* tests/test_db.py calls create_user, get_password_hash and verify_password
\* directly, with passwords the register schema would not let through, and
\* adds User rows of its own whose password_hash is any text.
LongSecrets ==
    { "a-pass-phrase-that-goes-on-beyond-the-seventy-two-bytes-bcrypt-reads----1",
      "a-pass-phrase-that-goes-on-beyond-the-seventy-two-bytes-bcrypt-reads----2" }
Secrets == Passwords \cup { "" } \cup LongSecrets

\* Texts that are no bcrypt hash: one of no known scheme, one that starts
\* like bcrypt and is cut short, the empty text.
RawHashes ==
    { [scheme |-> "unknown", salt |-> 0, digest |-> << "hashedpassword123" >>],
      [scheme |-> "bcrypt", salt |-> 1, digest |-> << 1 >>],
      [scheme |-> "", salt |-> 0, digest |-> << >>] }

\* crud/user.py create_user called directly: add, commit, refresh; the
\* IntegrityError of the commit reaches the caller.
create_user(username, email, password, salt) ==
    LET row == NewUser(store, username, email, password, salt)
    IN /\ IF IntegrityError(store, row)
          THEN /\ out' = [op |-> "create_user", email |-> email,
                          password |-> password,
                          resp |-> Raised("IntegrityError")]
               /\ UNCHANGED store
          ELSE /\ store' = store \cup {row}
               /\ out' = [op |-> "create_user", email |-> email,
                          password |-> password,
                          resp |-> Returns(row)]
       /\ UNCHANGED <<req, now, settings>>

\* db_session.add(User(username, email, password_hash)); commit().
add(username, email, password_hash) ==
    LET row == [id |-> NextId(store), username |-> username, email |-> email,
                password_hash |-> password_hash, is_active |-> TRUE]
    IN /\ IF IntegrityError(store, row)
          THEN /\ out' = [op |-> "add", resp |-> Raised("IntegrityError")]
               /\ UNCHANGED store
          ELSE /\ store' = store \cup {row}
               /\ out' = [op |-> "add", resp |-> Returns(row)]
       /\ UNCHANGED <<req, now, settings>>

\* verify_password called directly: what pwd_context.verify returns, or
\* the exception it raises.
verify(plain_password, hashed_password) ==
    /\ out' = [op |-> "verify", plain_password |-> plain_password,
               hashed_password |-> hashed_password,
               resp |-> IF UnknownHashError(hashed_password)
                        THEN Raised("ValueError")
                        ELSE Returns(verify_password(plain_password,
                                                     hashed_password))]
    /\ UNCHANGED <<store, req, now, settings>>

\* get_user_by_email and get_user_by_username called directly.
lookup_email(email) ==
    /\ out' = [op |-> "get_user_by_email", email |-> email,
               resp |-> get_user_by_email(store, email)]
    /\ UNCHANGED <<store, req, now, settings>>

lookup_username(username) ==
    /\ out' = [op |-> "get_user_by_username", username |-> username,
               resp |-> get_user_by_username(store, username)]
    /\ UNCHANGED <<store, req, now, settings>>

Hashes(db) ==
    { get_password_hash(s, salt) : s \in Secrets, salt \in Salts }
      \cup RawHashes \cup { u.password_hash : u \in db }

StoredEmails == { Lower(e) : e \in Emails }

CreateUser ==
    \E u \in Usernames, e \in Emails, p \in Secrets, s \in Salts :
        create_user(u, e, p, s)
Add == \E u \in Usernames, e \in StoredEmails, h \in RawHashes : add(u, e, h)
Verify == \E p \in Secrets, h \in Hashes(store) : verify(p, h)
LoginAny == \E e \in Emails, p \in Secrets : login(e, p)
LookupEmail == \E e \in Emails : lookup_email(e)
LookupUsername == \E u \in Usernames : lookup_username(u)

NextCrud ==
    \/ CreateUser
    \/ Add
    \/ Verify
    \/ LoginAny
    \/ LookupEmail
    \/ LookupUsername
    \/ drop_all

SpecCrud == Init /\ [][NextCrud]_vars

\* ------------------------------------------- requests of any shape
\* What a client can send: bodies that fit the schemas, and bodies with a
\* username too short or too long, a password too short, a text that is no
\* email, an empty email, or a field missing.
LongUsername == "a-username-of-fifty-one-characters-is-one-too-long."
BadRegisterBodies ==
    { [username |-> "ab", email |-> <<"a","x">>, password |-> "password1"],
      [username |-> LongUsername, email |-> <<"a","x">>,
       password |-> "password1"],
      [username |-> "bob", email |-> <<"a","x">>, password |-> "short"],
      [username |-> "bob", email |-> <<"invalid-email">>,
       password |-> "password1"],
      [email |-> <<"a","x">>, password |-> "password1"],
      [username |-> "bob", password |-> "password1"],
      [username |-> "bob", email |-> <<"a","x">>] }
RegisterBodies ==
    [username : Usernames, email : Emails, password : Passwords]
      \cup BadRegisterBodies
BadLoginBodies ==
    { [email |-> << >>, password |-> ""],
      [email |-> <<"invalid-email">>, password |-> "password1"],
      [password |-> "password1"] }
LoginBodies == [email : Emails, password : Passwords] \cup BadLoginBodies

RegisterAny(r) ==
    \/ \E body \in RegisterBodies :
         \/ register_unprocessable(body)
         \/ /\ {"username", "email", "password"} \subseteq DOMAIN body
            /\ register(r, body.username, body.email, body.password)
    \/ register_check_username(r)
    \/ \E s \in Salts : register_create(r, s)

LoginBody ==
    \E body \in LoginBodies :
       \/ login_unprocessable(body)
       \/ /\ {"email", "password"} \subseteq DOMAIN body
          /\ login(body.email, body.password)

\* Requests one after the other, of any shape; the clock stands still.
NextRequests ==
    \/ RegisterAny("w1")
    \/ LoginBody
    \/ LookupUsername
    \/ drop_all

SpecRequests == Init /\ [][NextRequests]_vars

\* ------------------------------------------- one email over the token's life
\* One email address in its two spellings, registered, logged in, dropped
\* and registered again while the clock runs past the expiry of tokens.
RegisterOne(r) ==
    \/ \E u \in Usernames, e \in Subjects : register(r, u, e, "password1")
    \/ register_check_username(r)
    \/ register_create(r, 1)

LoginOne == \E e \in Subjects, p \in Passwords : login(e, p)

NextSessions ==
    \/ RegisterOne("w1")
    \/ LoginOne
    \/ GetMe
    \/ tick
    \/ jump
    \/ drop_all

SpecSessions == Init /\ [][NextSessions]_vars

\* ------------------------------------------------------- the process starts
\* Before app.config has been imported nothing of the service exists.  The
\* import either leaves settings in place or ends the process with the
\* exception; the token functions can be called in a process that got past it.
NotStarted == [started |-> FALSE]
Serving == "SECRET_KEY" \in DOMAIN settings

start(environ) ==
    /\ settings = NotStarted
    /\ settings' = Settings(environ)
    /\ out' = [op |-> "start", environ |-> environ]
    /\ UNCHANGED <<store, req, now>>

InitStart ==
    /\ store = { NewUser({}, "bob", <<"a","x">>, "password1", 1) }
    /\ req = [r \in Procs |-> Idle]
    /\ out = NoOut
    /\ now = 0
    /\ settings = NotStarted

Start == \E environ \in Environments : start(environ)
IssueServing == Serving /\ Issue
DecodeServing == Serving /\ Decode

NextStart ==
    \/ Start
    \/ IssueServing
    \/ DecodeServing
    \/ tick

SpecStart == InitStart /\ [][NextStart]_vars

\* ================================================================ properties
\* Facts about the table, stated without the code's lookups.
EmailStored(db, email) == \E x \in db : x.email = Lower(email)
UsernameStored(db, username) == \E x \in db : x.username = username
RowOf(db, email) == CHOOSE x \in db : x.email = Lower(email)
PasswordOf(row) == row.password_hash.digest[2]

\* The step is a register request answered by its first statement.
RejectedAtOnce == req' = req /\ out' # out /\ out'.op = "register"
\* The step takes worker r past the first statement.
Admitted(r) == req[r].pc = "idle" /\ req'[r].pc # "idle"
\* The step is worker r leaving create_user, one way or the other.
Inserted(r) == req[r].pc = "create" /\ req'[r].pc = "idle"

\* C1: a register request whose email and whose username are both stored
\* (by one row or by two) is answered 409 'Email already registered' and
\* never gets as far as the username check.
C1_EmailConflictFirst ==
    [][\A u \in Usernames, e \in Emails :
         (EmailStored(store, e) /\ UsernameStored(store, u)) =>
            /\ \A r \in Procs :
                 ~ (Admitted(r) /\ req'[r].username = u /\ req'[r].email = e)
            /\ (RejectedAtOnce /\ out'.username = u /\ out'.email = e) =>
                 out'.resp = EmailConflict]_vars

C1_Witness ==
    /\ out.op = "register"
    /\ out.resp = EmailConflict
    /\ \E x, y \in store :
         x # y /\ x.email = Lower(out.email) /\ y.username = out.username

\* C2: a successful register stores its lowercased email, and from then on
\* a register with any case variant of that email is answered 409 naming the
\* email and leaves the table as it was.
C2_DuplicateEmailRejected ==
    [][/\ \A r \in Procs :
            (Inserted(r) /\ out'.resp.status = HTTP_201_CREATED) =>
               EmailStored(store', req[r].email)
       /\ \A e \in Emails :
            EmailStored(store, e) =>
               /\ \A r \in Procs : ~ (Admitted(r) /\ req'[r].email = e)
               /\ (RejectedAtOnce /\ out'.email = e) =>
                    /\ out'.resp.status = HTTP_409_CONFLICT
                    /\ out'.resp.detail = "Email already registered"
                    /\ store' = store]_vars

C2_Witness ==
    /\ out.op = "register"
    /\ out.resp.status = HTTP_409_CONFLICT
    /\ out.email # Lower(out.email)
    /\ EmailStored(store, out.email)
    /\ ~ UsernameStored(store, out.username)

\* C3: a register whose email is not stored and whose username is stored
\* passes the email check, is answered 409 'Username already taken' by the
\* username check, and adds no row.
C3_DuplicateUsernameRejected ==
    [][\A r \in Procs :
         /\ (Admitted(r) /\ UsernameStored(store, req'[r].username)) =>
               (req'[r].pc = "check_username" /\ store' = store)
         /\ (req[r].pc = "check_username" /\ req'[r] # req[r]
               /\ UsernameStored(store, req[r].username)) =>
               /\ req'[r].pc = "idle"
               /\ out' = RegisterOut(req[r], UsernameConflict)
               /\ store' = store]_vars

C3_Witness ==
    /\ out.op = "register"
    /\ out.resp = UsernameConflict
    /\ ~ EmailStored(store, out.email)
    /\ UsernameStored(store, out.username)

C5_RaceSurfacesAsConflict ==
    [][\A r \in Procs :
         Inserted(r) =>
            /\ out'.op = "register"
            /\ out'.resp.status \in {HTTP_201_CREATED, HTTP_409_CONFLICT}
            /\ EmailStored(store, req[r].email) =>
                  (out' = RegisterOut(req[r], ExistsConflict) /\ store' = store)
            /\ \A r2 \in Procs \ {r} :
                  (/\ req[r2].pc = "create"
                   /\ Lower(req[r2].email) = Lower(req[r].email)
                   /\ out'.resp.status = HTTP_201_CREATED) =>
                     /\ req'[r2] = req[r2]
                     /\ EmailStored(store', req[r2].email)
                     /\ Cardinality(store') = Cardinality(store) + 1]_vars

C5_Witness ==
    /\ out.op = "register"
    /\ out.resp = ExistsConflict
    /\ EmailStored(store, out.email)
    /\ ~ UsernameStored(store, out.username)

\* C6: no two rows of the users table share an email, and no two share a
\* username.
C6_UniqueEmailAndUsername ==
    \A x, y \in store :
        x # y => (x.email # y.email /\ x.username # y.username)

C6_Witness ==
    /\ Cardinality(store) = 2
    /\ out.op = "register"
    /\ out.resp = ExistsConflict
    /\ UsernameStored(store, out.username)

\* C7: the table changes only by a register answered 201, which adds its
\* one row; a register answered 409, a login and a get_me leave it as it
\* was.  (drop_all is the tests' own reset, not a request.)
C7_NoWriteOnFailure ==
    [][/\ (out' # out /\ out'.op \in {"login", "me"}) => store' = store
       /\ (out' # out /\ out'.op = "register"
             /\ out'.resp.status # HTTP_201_CREATED) => store' = store
       /\ store' # store =>
            \/ store' = {} /\ out' = out /\ req' = req
            \/ \E r \in Procs :
                 /\ Inserted(r)
                 /\ out'.resp.status = HTTP_201_CREATED
                 /\ \E row \in store' : row \notin store
                                         /\ store' = store \cup {row}]_vars

C7_Witness ==
    /\ out.op = "register"
    /\ out.resp = ExistsConflict
    /\ store # {}
    /\ \E r \in Procs : InFlight(r)

\* C8: register(u, e, p) answered 201 has stored a row with username u,
\* email lower(e) and a hash of p; a login with a stored email (any case)
\* and its password is answered 200 with a bearer token; and a get_me with
\* the token of the login just answered, while the token is unexpired and
\* a row is stored under the login's email, is answered 200 with email
\* lower(e) and that row's username.
C8_RegisterLoginMe ==
    [][/\ \A r \in Procs :
            (Inserted(r) /\ out'.resp.status = HTTP_201_CREATED) =>
               \E row \in store' :
                  /\ row.username = req[r].username
                  /\ row.email = Lower(req[r].email)
                  /\ PasswordOf(row) = req[r].password
                  /\ out'.resp.body.username = req[r].username
                  /\ out'.resp.body.email = Lower(req[r].email)
       /\ (/\ out' # out /\ out'.op = "login"
           /\ EmailStored(store, out'.email)
           /\ PasswordOf(RowOf(store, out'.email)) = out'.password) =>
              /\ out'.resp.status = HTTP_200_OK
              /\ out'.resp.body.token_type = "bearer"
       /\ (/\ out.op = "login" /\ out.resp.status = HTTP_200_OK
           /\ out'.op = "me" /\ out'.token = out.resp.body.access_token
           /\ Timestamp(now) <= out.resp.body.access_token.payload.exp
           /\ EmailStored(store, out.email)) =>
              /\ out'.resp.status = HTTP_200_OK
              /\ out'.resp.body.email = Lower(out.email)
              /\ out'.resp.body.username = RowOf(store, out.email).username]_vars

C8_Witness ==
    /\ out.op = "me"
    /\ out.resp.status = HTTP_200_OK
    /\ out.token \in { create_access_token([sub |-> out.resp.body.email],
                          Minutes(ACCESS_TOKEN_EXPIRE_MINUTES), t) : t \in Clock }
    /\ now > 0

\* C9: a login with any case variant of a stored email and that row's
\* password is answered 200, and the sub claim of the token is the stored
\* lowercase email, not the variant that was sent.
C9_LoginCaseInsensitive ==
    [][(out' # out /\ out'.op = "login") =>
         \A row \in store :
            (row.email = Lower(out'.email) /\ PasswordOf(row) = out'.password) =>
               /\ out'.resp.status = HTTP_200_OK
               /\ out'.resp.body.access_token.payload.sub = row.email
               /\ out'.resp.body.access_token.payload.sub = Lower(out'.email)]_vars

C9_Witness ==
    /\ out.op = "login"
    /\ out.resp.status = HTTP_200_OK
    /\ out.email # Lower(out.email)

\* C10: a get_me with a token signed with the process key and algorithm
\* and not yet expired, whose sub has no row at that moment, is answered
\* 401 'Could not validate credentials'; so is the token of the login just
\* answered once its account is gone.
WellSigned(token) ==
    token.form = "jws" /\ token.key = SECRET_KEY /\ token.alg = ALGORITHM
Unexpired(token, t) == Timestamp(t) <= token.payload.exp

C10_NoRecordUnauthorized ==
    [][(/\ out' # out /\ out'.op = "me"
        /\ WellSigned(out'.token)
        /\ Unexpired(out'.token, now)
        /\ ~ EmailStored(store, out'.token.payload.sub)) =>
           /\ out'.resp.status = HTTP_401_UNAUTHORIZED
           /\ out'.resp.detail = "Could not validate credentials"
           /\ (out.op = "login" /\ out.resp.status = HTTP_200_OK
                 /\ out'.token = out.resp.body.access_token) =>
                 out'.resp.body = None]_vars

C10_Witness ==
    /\ out.op = "me"
    /\ out.resp.status = HTTP_401_UNAUTHORIZED
    /\ WellSigned(out.token)
    /\ Unexpired(out.token, now)
    /\ ~ EmailStored(store, out.token.payload.sub)
    /\ out.token \in { create_access_token([sub |-> e],
                          Minutes(ACCESS_TOKEN_EXPIRE_MINUTES), t) :
                          e \in {Lower(x) : x \in Emails}, t \in Clock }

\* The ways a presented token can fail, stated on the token itself.
Malformed(token) == token.form # "jws"
BadSignature(token) ==
    token.form = "jws" /\ (token.key # SECRET_KEY \/ token.alg # ALGORITHM)
Expired(token, t) ==
    /\ WellSigned(token)
    /\ "exp" \in DOMAIN token.payload
    /\ token.payload.exp < Timestamp(t)
NoSubject(token) == WellSigned(token) /\ "sub" \notin DOMAIN token.payload
NoRecord(db, token) ==
    /\ WellSigned(token)
    /\ "sub" \in DOMAIN token.payload
    /\ ~ EmailStored(db, token.payload.sub)

\* C11: whatever makes get_current_user fail (a malformed token, a bad
\* signature, an expired token, a token without sub, a sub without a
\* record), the answer to GET /me is the same response: 401, detail
\* 'Could not validate credentials', header WWW-Authenticate: Bearer, no
\* body; and no answer other than 200 differs from it.
C11_AuthFailuresIdentical ==
    [][(out' # out /\ out'.op = "me") =>
         LET token == out'.token
             failed == \/ Malformed(token)
                       \/ BadSignature(token)
                       \/ Expired(token, now)
                       \/ NoSubject(token)
                       \/ NoRecord(store, token)
             refusal == [status |-> HTTP_401_UNAUTHORIZED,
                         detail |-> "Could not validate credentials",
                         headers |-> BearerHeaders,
                         body |-> None]
         IN /\ failed => out'.resp = refusal
            /\ out'.resp.status # HTTP_200_OK => out'.resp = refusal]_vars

\* A correctly signed, unexpired token without sub has been refused while
\* the table holds a user.
C11_Witness ==
    /\ out.op = "me"
    /\ NoSubject(out.token)
    /\ ~ Expired(out.token, now)
    /\ store # {}
    /\ out.resp.status = HTTP_401_UNAUTHORIZED

\* The tokens create_access_token has been able to sign up to t when given
\* a negative expires_delta.
IssuedNegative(t) ==
    { create_access_token(c, d, t0) :
        c \in Claims,
        d \in {x \in Lifetimes \ {None} : x.ticks < 0},
        t0 \in {c0 \in Clock : c0 <= t} }

\* C12: a token issued with a negative expires_delta is invalid from the
\* moment of issue: decode_access_token returns None for it at every later
\* time, and GET /me with it is answered 401 even while the record of its
\* subject exists.
C12_NegativeLifetimeInvalid ==
    [][(out' # out /\ out'.op \in {"decode", "me"}
          /\ out'.token \in IssuedNegative(now)) =>
         IF out'.op = "decode"
         THEN out'.resp = None
         ELSE out'.resp.status = HTTP_401_UNAUTHORIZED]_vars

\* C13: the expiry instant itself counts as expired: decode_access_token
\* returns None for every correctly signed token whose exp is at or before
\* the current time, and returns the claims only when exp lies after it.
C13_ExpiryInstantExpired ==
    [][(out' # out /\ out'.op = "decode" /\ WellSigned(out'.token)
          /\ "exp" \in DOMAIN out'.token.payload) =>
         (out'.resp # None <=> out'.token.payload.exp > Timestamp(now))]_vars

\* C14: whenever create_access_token is given a lifetime (positive,
\* negative or zero), exp is the time of issue plus that lifetime; the
\* configured default is used only when no lifetime is given.
C14_SuppliedLifetimeUsed ==
    [][(out' # out /\ out'.op = "issue") =>
         LET ttl == IF out'.expires_delta = None
                    THEN Minutes(ACCESS_TOKEN_EXPIRE_MINUTES)
                    ELSE out'.expires_delta
         IN out'.token.payload.exp = Timestamp(out'.at + ttl.ticks)]_vars

\* The step decodes the token that the step before issued with a positive
\* lifetime, before that lifetime has run out.
DecodesFreshIssue ==
    /\ out.op = "issue" /\ out'.op = "decode" /\ out'.token = out.token
    /\ out.expires_delta # None /\ out.expires_delta.ticks > 0
    /\ now < out.at + out.expires_delta.ticks
\* The decoded map carries every entry of the claims as given.
Carries(decoded, data) ==
    /\ decoded # None
    /\ \A k \in DOMAIN data : k \in DOMAIN decoded /\ decoded[k] = data[k]
\* The step issues again what the step before issued, within one whole
\* second.
IssuesAgain ==
    /\ out.op = "issue" /\ out'.op = "issue" /\ out' # out
    /\ out'.data = out.data /\ out'.expires_delta = out.expires_delta
    /\ out.expires_delta # None /\ out.expires_delta.ticks > 0
    /\ Timestamp(out'.at) = Timestamp(out.at)

C16_NoExpiryInvalid ==
    [][(out' # out /\ out'.op \in {"decode", "me"}
          /\ WellSigned(out'.token)
          /\ "exp" \notin DOMAIN out'.token.payload) =>
         IF out'.op = "decode"
         THEN out'.resp = None
         ELSE out'.resp.status = HTTP_401_UNAUTHORIZED]_vars

\* What a call of decode_access_token can return: None or a claims map; an
\* exception leaving it would show as a value with a raised field.
Returned(result) == "raised" \notin DOMAIN result

\* C17: decode_access_token is total.  For every string handed to it (no
\* token at all, the empty string, a token signed with another key, a token
\* whose header names another algorithm) it returns None and does not raise;
\* it returns a claims map only for a well-formed token signed with the
\* configured key and algorithm, and then the map is the token's payload.
C17_DecodeTotal ==
    [][(out' # out /\ out'.op = "decode") =>
         LET token == out'.token
         IN /\ Returned(out'.resp)
            /\ (Malformed(token) \/ BadSignature(token)) => out'.resp = None
            /\ out'.resp # None =>
                 WellSigned(token) /\ out'.resp = token.payload]_vars

\* The empty string has been decoded to None.
C17_Witness ==
    /\ out.op = "decode"
    /\ out.token = [form |-> ""]
    /\ out.resp = None

WithinLimit(secret) == Len(secret) <= 72

C19_MalformedHashIsFalse ==
    [][/\ (out' # out /\ out'.op = "verify"
             /\ out'.hashed_password \in RawHashes) =>
            out'.resp = Returns(FALSE)
       /\ (out' # out /\ out'.op = "login"
             /\ EmailStored(store, out'.email)
             /\ RowOf(store, out'.email).password_hash \in RawHashes) =>
            /\ out'.resp.status = HTTP_401_UNAUTHORIZED
            /\ out'.resp.detail = "Incorrect email or password"]_vars

\* The fields a register or /me response shows.
PublicFields == {"id", "username", "email", "is_active"}

\* C20: the password is stored as a bcrypt digest, never as given: the row
\* a register request inserts holds a hash that verifies the password and
\* is not the password, its other fields come from the username and the
\* email alone, and the bodies of the register and /me responses show only
\* id, username, email and is_active, the same whatever the password was.
C20_NoPlaintextStoredOrReturned ==
    [][/\ (Inserted("w1") /\ store' # store) =>
            LET q == req["w1"]
                row == CHOOSE u \in store' : u \notin store
            IN /\ row.password_hash.scheme = "bcrypt"
               /\ verify_password(q.password, row.password_hash)
               /\ [k \in PublicFields |-> row[k]]
                    = [id |-> NextId(store), username |-> q.username,
                       email |-> Lower(q.email), is_active |-> TRUE]
               /\ DOMAIN row = PublicFields \cup {"password_hash"}
               /\ DOMAIN out'.resp.body = PublicFields
               /\ \A p \in Passwords, salt \in Salts :
                    out'.resp.body
                      = UserResponse(NewUser(store, q.username, q.email,
                                             p, salt))
       /\ (out' # out /\ out'.op = "me"
             /\ out'.resp.status = HTTP_200_OK) =>
            /\ DOMAIN out'.resp.body = PublicFields
            /\ \E u \in store :
                 out'.resp.body = [k \in PublicFields |-> u[k]]]_vars

\* GET /me has just answered 200 for a registered user.
C20_Witness ==
    /\ out.op = "me"
    /\ out.resp.status = HTTP_200_OK
    /\ \E u \in store :
         /\ out.resp.body.id = u.id
         /\ PasswordOf(u) \in Passwords

\* No letter of the email is upper case.
AllLower(email) == \A i \in DOMAIN email : email[i] = LowerChar(email[i])

\* C21: every row create_user writes has the email it was given in lower
\* case; and get_user_by_email(x) returns, for every case variant x, a row
\* whose email is lower(x), and None only when the table has no such row.
C21_EmailNormalised ==
    [][/\ (out' # out /\ out'.op = "create_user"
             /\ "returned" \in DOMAIN out'.resp) =>
            LET row == out'.resp.returned
            IN /\ row \in store' /\ row \notin store
               /\ AllLower(row.email)
               /\ row.email = Lower(out'.email)
       /\ (out' # out /\ out'.op = "get_user_by_email") =>
            IF \E u \in store : u.email = Lower(out'.email)
            THEN /\ out'.resp \in store
                 /\ out'.resp.email = Lower(out'.email)
            ELSE out'.resp = None]_vars

\* A lookup with an upper-case letter in the email has found a row that
\* create_user stored.
C21_Witness ==
    /\ out.op = "get_user_by_email"
    /\ ~ AllLower(out.email)
    /\ out.resp # None
    /\ out.resp.email = Lower(out.email)
    /\ out.resp.password_hash \notin RawHashes

\* The shapes the schemas ask for, stated on the body itself.
HasFields(body, fields) == fields \subseteq DOMAIN body
TwoParts(email) == Len(email) = 2 /\ email[1] # "" /\ email[2] # ""
FitsRegister(body) ==
    /\ HasFields(body, {"username", "email", "password"})
    /\ Len(body.username) \in 3..50
    /\ TwoParts(body.email)
    /\ Len(body.password) >= 8
FitsLogin(body) ==
    HasFields(body, {"email", "password"}) /\ TwoParts(body.email)

\* C23: a register request whose body has a username of fewer than 3 or
\* more than 50 characters, a password of fewer than 8, a malformed email
\* or a missing field is answered 422 and goes no further: the table and
\* the requests in flight are as before, and the answer is 422 even when
\* the email or the username is stored; only bodies that fit get to the
\* handler.  The same for a login request with a malformed or empty email.
C23_ShapeCheckedFirst ==
    [][/\ \A body \in RegisterBodies :
            ~ FitsRegister(body) => ENABLED register_unprocessable(body)
       /\ \A body \in LoginBodies :
            ~ FitsLogin(body) => ENABLED login_unprocessable(body)
       /\ (out' # out /\ out'.op \in {"register", "login"}
             /\ "body" \in DOMAIN out') =>
            /\ IF out'.op = "register"
               THEN ~ FitsRegister(out'.body)
               ELSE ~ FitsLogin(out'.body)
            /\ out'.resp.status = 422
            /\ out'.resp.body = None
            /\ store' = store /\ req' = req
       /\ Admitted("w1") =>
            FitsRegister([username |-> req'["w1"].username,
                          email |-> req'["w1"].email,
                          password |-> req'["w1"].password])
       /\ (out' # out /\ out'.op \in {"register", "login"}
             /\ "body" \notin DOMAIN out') =>
            /\ TwoParts(out'.email)
            /\ out'.op = "register" => Len(out'.username) \in 3..50]_vars

\* A register request with a password too short has been answered 422
\* although its email and its username are both stored.
C23_Witness ==
    /\ out.op = "register"
    /\ "body" \in DOMAIN out
    /\ out.resp.status = 422
    /\ HasFields(out.body, {"username", "email", "password"})
    /\ Len(out.body.password) < 8
    /\ EmailStored(store, out.body.email)
    /\ UsernameStored(store, out.body.username)

\* Two usernames that differ, and only in the case of their letters.
CaseVariants(m, n) ==
    /\ m # n
    /\ Len(m) = Len(n)
    /\ \A i \in 1..Len(m) :
         LowerChar(SubSeq(m, i, i)) = LowerChar(SubSeq(n, i, i))

\* C24: usernames match exactly, letter case included. get_user_by_username
\* returns a row only if its username is the one asked for, character for
\* character, and returns None only if no row has it; and a register whose
\* username differs from the stored ones (be it only in letter case) passes
\* the username check and goes on to create_user.
C24_UsernameExact ==
    [][/\ (out' # out /\ out'.op = "get_user_by_username") =>
            /\ out'.resp # None =>
                 out'.resp \in store /\ out'.resp.username = out'.username
            /\ out'.resp = None =>
                 \A u \in store : u.username # out'.username
       /\ \A r \in Procs :
            (/\ req[r].pc = "check_username"
             /\ req'[r] # req[r]
             /\ \A u \in store : u.username # req[r].username) =>
               /\ req'[r] = [req[r] EXCEPT !.pc = "create"]
               /\ out' = out]_vars

C24_Witness ==
    /\ out.op = "register"
    /\ out.resp.status = HTTP_201_CREATED
    /\ \E u, v \in store :
         /\ v.username = out.username
         /\ v.email = Lower(out.email)
         /\ v.id > u.id
         /\ u.email # v.email
         /\ CaseVariants(u.username, v.username)

\* C25: a register that passed both checks and meets the table's unique
\* constraints is answered 201 with the new row's public fields, and the
\* table gains exactly one row: the username as given, the email in lower
\* case, is_active true, a password_hash that verifies the password given,
\* and an id no other row has. The rows that were there stay as they were.
C25_RegisterAddsOneRecord ==
    [][\A r \in Procs :
         (/\ Inserted(r)
          /\ ~ EmailStored(store, Lower(req[r].email))
          /\ ~ UsernameStored(store, req[r].username)) =>
            \E row \in store' :
               /\ row \notin store
               /\ store' = store \cup {row}
               /\ row.username = req[r].username
               /\ row.email = Lower(req[r].email)
               /\ row.is_active = TRUE
               /\ ~ UnknownHashError(row.password_hash)
               /\ verify_password(req[r].password, row.password_hash)
               /\ \A u \in store' : u.id = row.id => u = row
               /\ out'.op = "register"
               /\ out'.username = req[r].username
               /\ out'.resp.status = HTTP_201_CREATED
               /\ out'.resp.body = UserResponse(row)]_vars

C25_Witness ==
    /\ out.op = "register"
    /\ out.resp.status = HTTP_201_CREATED
    /\ out.email # Lower(out.email)
    /\ Cardinality(store) = 2
    /\ \E row \in store :
         /\ out.resp.body = UserResponse(row)
         /\ row.email = Lower(out.email)
         /\ \A u \in store : u.id <= row.id

\* The tokens login can have issued up to time t.
LoginTokens(t) ==
    { create_access_token([sub |-> Lower(e)],
                          Minutes(ACCESS_TOKEN_EXPIRE_MINUTES), t0) :
        e \in Subjects, t0 \in {c \in Clock : c <= t} }

\* get_current_user accepts the token.
Accepted(db, token, t) == get_me_response(db, token, t).status = HTTP_200_OK

\* C26: nothing revokes a token. In every state, whatever requests have been
\* answered since it was issued, every token login has issued is accepted
\* while the clock is before its exp and a row is stored under its subject
\* (so are all the tokens of one subject at once), and GET /me answers such
\* a token 200; a token rejected as expired is rejected after every later
\* step as well.
C26_NoRevocation ==
    [][/\ \A token \in LoginTokens(now') :
            (/\ Timestamp(now') < token.payload.exp
             /\ EmailStored(store', token.payload.sub)) =>
               Accepted(store', token, now')
       /\ (/\ out' # out /\ out'.op = "me"
           /\ out'.token \in LoginTokens(now)
           /\ Timestamp(now) < out'.token.payload.exp
           /\ EmailStored(store, out'.token.payload.sub)) =>
              out'.resp.status = HTTP_200_OK
       /\ \A token \in Signed(now) :
            Expired(token, now) =>
               /\ Expired(token, now')
               /\ ~ Accepted(store', token, now')]_vars

\* A token of an earlier second is accepted after a later login has issued
\* another token for the same subject, which is accepted too.
C26_Witness ==
    /\ out.op = "me"
    /\ out.resp.status = HTTP_200_OK
    /\ out.token \in LoginTokens(now)
    /\ \E token \in LoginTokens(now) :
         /\ token.payload.sub = out.token.payload.sub
         /\ token.payload.exp > out.token.payload.exp
         /\ Accepted(store, token, now)
    /\ \E token \in LoginTokens(now) : Expired(token, now)

\* C27: a token names an email, not a row. GET /me answers a token 200 only
\* with the row stored under lower(sub) at that moment, whatever the
\* spelling of sub; and at the step where a registration takes an email that
\* had no row, every unexpired token for that email (and for its upper-case
\* spelling), rejected the moment before, is accepted as the new row.
C27_TokenBoundToEmail ==
    [][/\ (out' # out /\ out'.op = "me"
           /\ out'.resp.status = HTTP_200_OK) =>
            \E row \in store :
               /\ row.email = Lower(out'.token.payload.sub)
               /\ out'.resp.body = UserResponse(row)
       /\ (/\ out' # out /\ out'.op = "me"
           /\ out'.token \in Signed(now)
           /\ ~ Expired(out'.token, now)
           /\ EmailStored(store, out'.token.payload.sub)) =>
              out'.resp.status = HTTP_200_OK
       /\ \A r \in Procs :
            (Inserted(r) /\ store' # store) =>
               \A token \in Signed(now) :
                  (/\ ~ Expired(token, now)
                   /\ Lower(token.payload.sub) = Lower(req[r].email)) =>
                     /\ get_me_response(store, token, now)
                          = credentials_exception
                     /\ get_me_response(store', token, now').status
                          = HTTP_200_OK
                     /\ get_me_response(store', token, now').body
                          = out'.resp.body
                     /\ out'.resp.body.username = req[r].username]_vars

\* A token of the first second, whose sub is spelled in upper case, is
\* answered in a later second with the row stored under the lower-case
\* email.
C27_Witness ==
    /\ out.op = "me"
    /\ out.resp.status = HTTP_200_OK
    /\ out.token.payload.sub # Lower(out.token.payload.sub)
    /\ out.token.payload.exp
         = Timestamp(Minutes(ACCESS_TOKEN_EXPIRE_MINUTES).ticks)
    /\ Timestamp(now) > 0
    /\ \E row \in store :
         /\ row.email = Lower(out.token.payload.sub)
         /\ out.resp.body = UserResponse(row)
         /\ row.username = "Bob"

\* C28: create_access_token sets the expiry itself and leaves its argument
\* alone. Every token it returns carries exp, and that exp is the expiry it
\* computed (the time of the call plus the lifetime it went by) also when
\* data came with an exp of its own; the other claims are those of data;
\* and the caller's data after the call is the data passed, an exp key
\* neither added to it nor changed in it.
C28_ExpiryInjected ==
    [][(out' # out /\ out'.op = "issue") =>
         LET ttl == IF Truthy(out'.expires_delta)
                    THEN out'.expires_delta
                    ELSE Minutes(ACCESS_TOKEN_EXPIRE_MINUTES)
             payload == out'.token.payload
         IN /\ "exp" \in DOMAIN payload
            /\ payload.exp = Timestamp(out'.at + ttl.ticks)
            /\ DOMAIN payload = DOMAIN out'.data \cup {"exp"}
            /\ \A k \in DOMAIN out'.data \ {"exp"} : payload[k] = out'.data[k]
            /\ out'.data_after = out'.data
            /\ DOMAIN out'.data_after = DOMAIN out'.data]_vars

\* A call whose data carried an exp of the caller's: the token has the
\* computed one, the caller's data still has its own.
C28_Witness ==
    /\ out.op = "issue"
    /\ "exp" \in DOMAIN out.data
    /\ out.token.payload.exp # out.data.exp
    /\ out.data_after.exp = out.data.exp

\* The tables a lookup could be made in.
Tables == { {}, store } \cup { {NewUser({}, u, e, "password1", 1)} :
                                 u \in Usernames, e \in Emails }

\* C29: a correctly signed, unexpired token whose claims have no sub is
\* answered 401 'Could not validate credentials', and the answer is made
\* without a lookup: it is the same whatever the table holds.
C29_NoSubjectRejected ==
    [][(/\ out' # out /\ out'.op = "me"
        /\ WellSigned(out'.token)
        /\ "sub" \notin DOMAIN out'.token.payload
        /\ ~ Expired(out'.token, now)) =>
          /\ out'.resp.status = HTTP_401_UNAUTHORIZED
          /\ out'.resp = credentials_exception
          /\ \A db \in Tables :
               get_me_response(db, out'.token, now) = out'.resp]_vars

C29_Witness ==
    /\ out.op = "me"
    /\ WellSigned(out.token)
    /\ "sub" \notin DOMAIN out.token.payload
    /\ ~ Expired(out.token, now)
    /\ out.resp.status = HTTP_401_UNAUTHORIZED
    /\ store # {}

\* C30: login verifies the password exactly when it has found a row under
\* the lowercased email. With no row the answer is 401 whatever the
\* password, nothing being there to verify it against. With a row, the
\* answer is what verify_password makes of the password and that row's
\* hash: its exception surfaces as 500, its False as 401, and only its True
\* gets a token, whose sub is that row's email.
C30_TokenOnlyAfterVerify ==
    [][(/\ out' # out /\ out'.op = "login"
        /\ out'.resp.status # 422) =>
         LET found == EmailStored(store, out'.email)
             row == RowOf(store, out'.email)
         IN /\ ~ found =>
                 /\ out'.resp = Unauthorized("Incorrect email or password")
                 /\ \A p \in Secrets :
                      login_response(store, out'.email, p, now) = out'.resp
            /\ (found /\ UnknownHashError(row.password_hash)) =>
                 out'.resp = ServerError
            /\ (found /\ ~ UnknownHashError(row.password_hash)) =>
                 IF verify_password(out'.password, row.password_hash)
                 THEN /\ out'.resp.status = HTTP_200_OK
                      /\ out'.resp.body.access_token.payload.sub = row.email
                 ELSE out'.resp = Unauthorized("Incorrect email or password")
            /\ out'.resp.status = HTTP_200_OK =>
                 /\ found
                 /\ ~ UnknownHashError(row.password_hash)
                 /\ verify_password(out'.password, row.password_hash)]_vars

\* A login with a stored email and another password than the row's: the
\* row was found, the verification said no, no token was issued.
C30_Witness ==
    /\ out.op = "login"
    /\ out.resp.status = HTTP_401_UNAUTHORIZED
    /\ EmailStored(store, out.email)
    /\ ~ UnknownHashError(RowOf(store, out.email).password_hash)
    /\ ~ verify_password(out.password, RowOf(store, out.email).password_hash)

\* The environment has no signing key, or an empty one.
NoSigningKey(environ) ==
    "SECRET_KEY" \notin DOMAIN environ \/ environ.SECRET_KEY = ""

\* C22: a signing key that is unset or empty is a fatal error of the
\* configuration, found when the process starts and not at the first call:
\* the start itself ends in ConfigError, and from then on the process never
\* serves; no later step is a create_access_token that returns a token or
\* a decode_access_token that accepts one.
C22_NoKeyFailsAtStart ==
    [][/\ (out' # out /\ out'.op = "start" /\ NoSigningKey(out'.environ)) =>
            /\ settings' = Raised("ConfigError")
            /\ ~ Serving'
       /\ settings = Raised("ConfigError") =>
            /\ settings' = settings
            /\ out' = out
            /\ ~ ENABLED IssueServing
            /\ ~ ENABLED DecodeServing
       /\ (out' # out /\ out'.op \in {"issue", "decode"}) =>
            /\ Serving
            /\ settings.SECRET_KEY # ""]_vars

\* The process was started with an empty signing key and time has passed.
C22_Witness ==
    /\ settings = Raised("ConfigError")
    /\ out.op = "start"
    /\ "SECRET_KEY" \in DOMAIN out.environ
    /\ out.environ.SECRET_KEY = ""
    /\ now > 0
====
